---- MODULE Spec2Model ----
(***************************************************************************)
(* InspectNYC (streamlit_app.py): the feature builder                      *)
(* add_history_and_features, the snapshot selector                         *)
(* latest_snapshot_for_scoring, and the script's filter / score / rank     *)
(* stages, as a state machine over in-memory tables.                       *)
(*                                                                         *)
(* A table (DataFrame) is a sequence of rows; a row is a record whose      *)
(* fields are the columns ("INSPECTION DATE" is DATE, "CRITICAL FLAG" is   *)
(* FLAG, "CUISINE DESCRIPTION" is CUISINE) plus idx, the row's index       *)
(* label.  Probabilities are integers in units of 1/10000.                 *)
(***************************************************************************)
EXTENDS Integers, Sequences, FiniteSets, TLC

VARIABLES
    pc,             \* position of the script run
    raw,            \* load_data(): the raw inspection table
    df,             \* add_history_and_features: df after line 46 (before tidy)
    feat,           \* add_history_and_features(raw)
    snap,           \* latest_snapshot_for_scoring(feat)
    boro_choice,    \* sidebar: borough selectbox
    cuisine_filter, \* sidebar: cuisine multiselect
    zip_filter,     \* sidebar: ZIP text input, a sequence of characters
    threshold,      \* sidebar: risk threshold slider
    top_n,          \* sidebar: Top N number input
    view,           \* the filtered (then scored and sorted) snapshot table
    calls,          \* the batches X handed to model.predict_proba, in order
    table,          \* the worklist table that is displayed and exported
    warned          \* st.warning("No rows after filters...") was shown

vars == <<pc, raw, df, feat, snap, boro_choice, cuisine_filter, zip_filter,
          threshold, top_n, view, calls, table, warned>>

(***************************************************************************)
(* Bounds of the model.                                                    *)
(***************************************************************************)
\* rows of a raw table whose rows are all valid apart from one score
MaxRoll == 5
\* rows of a raw table whose rows may lack a date, an entity id or a score
MaxTidy == 3
\* characters typed into the ZIP filter
MaxZipLen == 2
\* rows of a scored risk column
MaxScored == 11

(***************************************************************************)
(* Missing values.                                                         *)
(***************************************************************************)
\* NaN in a numeric column (CAMIS, SCORE, prev_score)
NaN == -1
\* NaT: what pd.to_datetime(errors="coerce") gives for an unparseable date
NaT == 0
\* NaN in a text column (BORO, GRADE, ...)
NA == "nan"
\* NaN of hist_crit_rate_w3, a mean kept as the fraction num / den
NaNRate == [num |-> 0, den |-> 0]

FEATURES == {"prev_score", "hist_crit_rate_w3", "hist_visits_w3", "month", "year",
             "CUISINE", "BORO", "GRADE", "ZIPCODE"}

(***************************************************************************)
(* Conversions.                                                            *)
(***************************************************************************)
\* the timestamps of the date strings that parse, as yyyymmdd
Timestamps ==
    ("01/15/2020" :> 20200115) @@ ("02/10/2020" :> 20200210) @@
    ("03/05/2020" :> 20200305) @@ ("07/20/2020" :> 20200720) @@
    ("01/08/2021" :> 20210108) @@ ("06/30/2021" :> 20210630) @@
    ("02/14/2022" :> 20220214) @@ ("11/11/2022" :> 20221111)

\* pd.to_datetime(s, errors="coerce")
ToDatetime(s) == IF s \in DOMAIN Timestamps THEN Timestamps[s] ELSE NaT

\* the numbers of the score strings that are numeric
Numbers == ("0" :> 0) @@ ("12" :> 12) @@ ("27" :> 27)

\* pd.to_numeric(s, errors="coerce")
ToNumeric(s) == IF s \in DOMAIN Numbers THEN Numbers[s] ELSE NaN

\* .dt.month and .dt.year of a timestamp
MonthOf(ts) == (ts \div 100) % 100
YearOf(ts) == ts \div 10000

Min(a, b) == IF a < b THEN a ELSE b
Max(a, b) == IF a > b THEN a ELSE b

\* the rows of a table, as a set
Rows(t) == {t[i] : i \in 1..Len(t)}

(***************************************************************************)
(* DataFrame.sort_values on one key, ascending: every arrangement of the   *)
(* rows in which the keys (key[i] is the key of rows[i]) never decrease.   *)
(* Rows with equal keys may come out in any order: the default sort kind   *)
(* is not stable.                                                          *)
(***************************************************************************)
RECURSIVE SortFrom(_, _, _)
SortFrom(rows, key, I) ==
    IF I = {} THEN {<< >>}
    ELSE LET least == {i \in I : \A j \in I : key[i] <= key[j]}
             \* equal rows give equal arrangements: take one of them
             reps == {i \in least : \A j \in least : rows[j] = rows[i] => i <= j}
         IN  UNION {{<<rows[i]>> \o s : s \in SortFrom(rows, key, I \ {i})} : i \in reps}

SortValues(rows, key) == SortFrom(rows, key, 1..Len(rows))

(***************************************************************************)
(* add_history_and_features                                                *)
(***************************************************************************)
\* lines 28-29: parse the date, drop the rows without a date or an entity id
ParseDates(t) ==
    [i \in 1..Len(t) |-> [t[i] EXCEPT !.DATE = ToDatetime(t[i].DATE)]]

HasDateAndCamis(r) == r.DATE # NaT /\ r.CAMIS # NaN

DropInvalid(t) == SelectSeq(t, HasDateAndCamis)

\* line 33: the row's own critical indicator
IsCritical(r) == IF r.FLAG = "Critical" THEN 1 ELSE 0

RECURSIVE SumRange(_, _, _)
SumRange(g, lo, hi) ==
    IF lo > hi THEN 0 ELSE IsCritical(g[hi]) + SumRange(g, lo, hi - 1)

\* the window of the rolling mean (line 37: rolling(3, ...))
Window == 3

\* a mean over every earlier position instead of the last three
RollingMeanExpanding(g, i) == [num |-> SumRange(g, 1, i), den |-> i]

\* line 37: prev_is_critical.rolling(3, min_periods=1).mean() at position i
RollingMean(g, i) ==
    LET lo == Max(1, i - Window + 1)
    IN  [num |-> SumRange(g, lo, i), den |-> i - lo + 1]

\* the rolling mean without the shift: the record's own flag is in it
ShiftedMeanUnshifted(g, k) == RollingMean(g, k)

\* line 37: .shift(1): position k takes the value of position k - 1
ShiftedMean(g, k) == IF k = 1 THEN NaNRate ELSE RollingMean(g, k - 1)

\* a visit count capped at the window
VisitIndexCapped(g, k) == Min(k - 1, Window)

\* line 38: np.arange(len(g)) at position k (1-based)
VisitIndex(g, k) == k - 1

\* lines 36-39: _add_roll on a group already sorted by date
AddRoll(g) ==
    [k \in 1..Len(g) |->
        [idx |-> g[k].idx, CAMIS |-> g[k].CAMIS, DBA |-> g[k].DBA,
         DATE |-> g[k].DATE, FLAG |-> g[k].FLAG, SCORE |-> g[k].SCORE,
         BORO |-> g[k].BORO, CUISINE |-> g[k].CUISINE, GRADE |-> g[k].GRADE,
         ZIPCODE |-> g[k].ZIPCODE,
         prev_is_critical |-> IsCritical(g[k]),
         hist_crit_rate_w3 |-> ShiftedMean(g, k),
         hist_visits_w3 |-> VisitIndex(g, k)]]

DateKey(g) == [i \in 1..Len(g) |-> g[i].DATE]

\* line 41, one group: the rows of entity c, sorted by date (line 36), rolled
GroupResults(t, c) ==
    LET g == SelectSeq(t, LAMBDA r : r.CAMIS = c)
    IN  {AddRoll(s) : s \in SortValues(g, DateKey(g))}

\* line 41: groupby("CAMIS", group_keys=False).apply(_add_roll): the groups'
\* results one after the other, in ascending order of the entity id
RECURSIVE ApplyGroups(_, _)
ApplyGroups(t, cs) ==
    IF cs = {} THEN {<< >>}
    ELSE LET c == CHOOSE x \in cs : \A y \in cs : x <= y
         IN  {a \o b : a \in GroupResults(t, c), b \in ApplyGroups(t, cs \ {c})}

\* lines 44-46: the score and the calendar features of the row itself
AddScoreAndTime(t) ==
    [i \in 1..Len(t) |->
        [idx |-> t[i].idx, CAMIS |-> t[i].CAMIS, DBA |-> t[i].DBA,
         DATE |-> t[i].DATE, BORO |-> t[i].BORO, CUISINE |-> t[i].CUISINE,
         GRADE |-> t[i].GRADE, ZIPCODE |-> t[i].ZIPCODE,
         FLAG |-> t[i].FLAG, SCORE |-> t[i].SCORE,
         prev_is_critical |-> t[i].prev_is_critical,
         hist_crit_rate_w3 |-> t[i].hist_crit_rate_w3,
         hist_visits_w3 |-> t[i].hist_visits_w3,
         prev_score |-> ToNumeric(t[i].SCORE),
         month |-> IF t[i].DATE = NaT THEN NaN ELSE MonthOf(t[i].DATE),
         year |-> IF t[i].DATE = NaT THEN NaN ELSE YearOf(t[i].DATE)]]

\* lines 27-46: the tables df can be after line 46
HistoryTables(t) ==
    LET valid == DropInvalid(ParseDates(t))
    IN  {AddScoreAndTime(h) : h \in ApplyGroups(valid, {r.CAMIS : r \in Rows(valid)})}

\* the dropna without prev_score in its subset
HasRequiredButScore(r) ==
    /\ r.hist_crit_rate_w3 # NaNRate
    /\ r.month # NaN
    /\ r.year # NaN

\* line 51: dropna(subset=["prev_score", "hist_crit_rate_w3", "month", "year"])
HasRequired(r) ==
    /\ r.prev_score # NaN
    /\ r.hist_crit_rate_w3 # NaNRate
    /\ r.month # NaN
    /\ r.year # NaN

\* lines 49-51: keep the feature and display columns, drop the incomplete rows
KeepCols(r) ==
    [idx |-> r.idx, CAMIS |-> r.CAMIS, DBA |-> r.DBA, DATE |-> r.DATE,
     BORO |-> r.BORO, CUISINE |-> r.CUISINE, GRADE |-> r.GRADE,
     ZIPCODE |-> r.ZIPCODE, prev_score |-> r.prev_score,
     hist_crit_rate_w3 |-> r.hist_crit_rate_w3,
     hist_visits_w3 |-> r.hist_visits_w3, month |-> r.month, year |-> r.year]

Tidy(t) ==
    LET kept == SelectSeq(t, HasRequired)
    IN  [i \in 1..Len(kept) |-> KeepCols(kept[i])]

(***************************************************************************)
(* latest_snapshot_for_scoring                                             *)
(***************************************************************************)
\* idxmin in place of idxmax
IdxMin(t, c) ==
    LET I == {i \in 1..Len(t) : t[i].CAMIS = c}
        low == {i \in I : \A j \in I : t[i].DATE <= t[j].DATE}
        first == CHOOSE i \in low : \A j \in low : i <= j
    IN  t[first].idx

\* line 73: groupby("CAMIS")["INSPECTION DATE"].idxmax(): for each entity the
\* index label of the first row, in table order, that has its latest date
IdxMax(t, c) ==
    LET I == {i \in 1..Len(t) : t[i].CAMIS = c}
        top == {i \in I : \A j \in I : t[j].DATE <= t[i].DATE}
        first == CHOOSE i \in top : \A j \in top : i <= j
    IN  t[first].idx

\* the row labelled x (labels are unique: they are the raw table's RangeIndex)
Loc(t, x) == t[CHOOSE i \in 1..Len(t) : t[i].idx = x]

RECURSIVE LocAll(_, _)
LocAll(t, cs) ==
    IF cs = {} THEN << >>
    ELSE LET c == CHOOSE x \in cs : \A y \in cs : x <= y
         IN  <<Loc(t, IdxMax(t, c))>> \o LocAll(t, cs \ {c})

\* lines 73-75
LatestSnapshotForScoring(t) == LocAll(t, {r.CAMIS : r \in Rows(t)})

(***************************************************************************)
(* Raw tables.                                                             *)
(***************************************************************************)
Camis == {1, 2}
Flags == {"Critical", "Not Critical"}
DateStrings ==
    <<"01/15/2020", "02/10/2020", "03/05/2020", "07/20/2020",
      "01/08/2021", "06/30/2021", "02/14/2022", "11/11/2022">>
DateAt(i) == DateStrings[((i - 1) % Len(DateStrings)) + 1]

\* the static attributes of an establishment
Profile(b, cu, g, z) == [BORO |-> b, CUISINE |-> cu, GRADE |-> g, ZIPCODE |-> z]

ProfileRow(i, c, d, f, s, p) ==
    [idx |-> i - 1, CAMIS |-> c, DBA |-> IF c = 1 THEN "THAI HOUSE" ELSE "PIZZA PLACE",
     DATE |-> d, FLAG |-> f, SCORE |-> s,
     BORO |-> p.BORO, CUISINE |-> p.CUISINE, GRADE |-> p.GRADE, ZIPCODE |-> p.ZIPCODE]

RawRow(i, c, d, f, s) == ProfileRow(i, c, d, f, s, Profile("Queens", "Thai", "A", 11))

\* how the dates of a raw table's rows are laid out: in file order, in
\* reverse file order, or in pairs of rows that share a date
Layouts == {"asc", "desc", "pairs"}
LayoutDate(l, n, i) ==
    CASE l = "asc" -> DateAt(i)
      [] l = "desc" -> DateAt(n + 1 - i)
      [] OTHER -> DateAt((i + 1) \div 2)

\* raw tables of n valid rows, the first a record of establishment 1; the
\* second row may have a non-numeric score
RollInputs(n) ==
    {[i \in 1..n |->
        RawRow(i, IF i = 1 THEN 1 ELSE cam[i], LayoutDate(l, n, i), fl[i],
               IF i = bad THEN "" ELSE "12")] :
     cam \in [2..n -> Camis], fl \in [1..n -> Flags], l \in Layouts, bad \in {0, 2}}

\* raw tables of n rows that may lack a date, an entity id or a numeric score
TidyInputs(n) ==
    {[i \in 1..n |-> RawRow(i, c[i], d[i], "Critical", s[i])] :
     c \in [1..n -> {1, NaN}],
     d \in [1..n -> {"01/15/2020", "02/10/2020", "not a date"}],
     s \in [1..n -> {"12", "N/A"}]}

Unset == << >>

InitFeat ==
    /\ pc = "build"
    /\ \/ \E n \in 1..MaxRoll : raw \in RollInputs(n)
       \/ \E n \in 0..MaxTidy : raw \in TidyInputs(n)
    /\ df = Unset /\ feat = Unset /\ snap = Unset
    /\ boro_choice = "All" /\ cuisine_filter = {} /\ zip_filter = << >>
    /\ threshold = 0 /\ top_n = 0
    /\ view = Unset /\ calls = << >> /\ table = Unset /\ warned = FALSE

\* lines 97-99: feat = add_history_and_features(raw), then
\* snap = latest_snapshot_for_scoring(feat)
BuildFeatures ==
    /\ pc = "build"
    /\ \E h \in HistoryTables(raw) :
        /\ df' = h
        /\ feat' = Tidy(h)
        /\ snap' = LatestSnapshotForScoring(Tidy(h))
    /\ pc' = "controls"
    /\ UNCHANGED <<raw, boro_choice, cuisine_filter, zip_filter,
                   threshold, top_n, view, calls, table, warned>>

\* a run up to the end of the feature building
NextFeat == BuildFeatures

SpecFeat == InitFeat /\ [][NextFeat]_vars

(***************************************************************************)
(* Text, as sequences of characters.                                       *)
(***************************************************************************)
Whitespace == {" "}

\* str.strip()
RECURSIVE LStrip(_)
LStrip(s) == IF s = << >> \/ s[1] \notin Whitespace THEN s ELSE LStrip(Tail(s))

RECURSIVE RStrip(_)
RStrip(s) ==
    IF s = << >> \/ s[Len(s)] \notin Whitespace THEN s
    ELSE RStrip(SubSeq(s, 1, Len(s) - 1))

Strip(s) == RStrip(LStrip(s))

\* str.split(","): the pieces between the commas, empty pieces included
RECURSIVE Split(_)
Split(s) ==
    IF \A i \in 1..Len(s) : s[i] # ","
    THEN <<s>>
    ELSE LET i == CHOOSE x \in 1..Len(s) :
                      s[x] = "," /\ \A y \in 1..(x - 1) : s[y] # ","
         IN  <<SubSeq(s, 1, i - 1)>> \o Split(SubSeq(s, i + 1, Len(s)))

Digits == <<"0", "1", "2", "3", "4", "5", "6", "7", "8", "9">>

\* astype(str) of an integer column's value
RECURSIVE AsStr(_)
AsStr(n) ==
    IF n < 10 THEN <<Digits[n + 1]>>
    ELSE AsStr(n \div 10) \o <<Digits[(n % 10) + 1]>>

(***************************************************************************)
(* Sidebar controls (lines 102-118).                                       *)
(***************************************************************************)
\* line 103: ["All"] + the boroughs of the snapshot table, NaN dropped
Boroughs(t) == {"All"} \cup ({r.BORO : r \in Rows(t)} \ {NA})

\* the number of cuisines the multiselect offers (line 110: head(30))
TopCuisineCount == 30

\* lines 107-112: the most frequent cuisines of the snapshot table
TopCuisines(t) ==
    LET cs == {r.CUISINE : r \in Rows(t)} \ {NA}
        count(c) == Cardinality({i \in 1..Len(t) : t[i].CUISINE = c})
    IN  {c \in cs : Cardinality({d \in cs : count(d) > count(c)}) < TopCuisineCount}

\* line 115: what can be typed into the ZIP box
ZipChars == {"1", ",", " "}
ZipInputs == UNION {[1..n -> ZipChars] : n \in 0..MaxZipLen}

\* line 117: slider(0.05, 0.95, 0.35, 0.01): the least value, the default, 0.40
Thresholds == {500, 3500, 4000}

\* line 118: number_input(min_value=10, ...): the least value
TopNs == {10}

\* the probabilities the scorer gives (0.30 and 0.40)
RiskLevels == {3000, 4000}

(***************************************************************************)
(* Filters (lines 121-128).                                                *)
(***************************************************************************)
\* line 127: the ZIP codes typed: the stripped pieces that are not empty
Zips(zf) ==
    LET pieces == Split(zf)
    IN  {Strip(pieces[i]) : i \in {x \in 1..Len(pieces) : Strip(pieces[x]) # << >>}}

\* lines 122-123
FilterBorough(t, b) ==
    IF b # "All" THEN SelectSeq(t, LAMBDA r : r.BORO = b) ELSE t

\* lines 124-125
FilterCuisine(t, cf) ==
    IF cf # {} THEN SelectSeq(t, LAMBDA r : r.CUISINE \in cf) ELSE t

\* lines 126-128
FilterZip(t, zf) ==
    IF Strip(zf) # << >>
    THEN SelectSeq(t, LAMBDA r : AsStr(r.ZIPCODE) \in Zips(zf))
    ELSE t

\* lines 121-128
FilterView(t, b, cf, zf) == FilterZip(FilterCuisine(FilterBorough(t, b), cf), zf)

\* an emptiness check that never finds the table empty
IsEmptyNever(t) == FALSE

\* line 130: view.empty
IsEmpty(t) == Len(t) = 0

(***************************************************************************)
(* Score and rank (lines 135-161).                                         *)
(***************************************************************************)
\* line 135: view[FEATURES]
FeatureVectors(t) == [i \in 1..Len(t) |-> [f \in FEATURES |-> t[i][f]]]

\* line 137: view.assign(risk=proba)
AssignRisk(t, proba) == [i \in 1..Len(t) |-> t[i] @@ ("risk" :> proba[i])]

\* the sort without ascending=False
SortByRiskAscending(t) == SortValues(t, [i \in 1..Len(t) |-> t[i].risk])

\* line 138: sort_values("risk", ascending=False)
SortByRisk(t) == SortValues(t, [i \in 1..Len(t) |-> 0 - t[i].risk])

\* no cut at the threshold
RiskCutKeepAll(t, tau) == t

\* line 150: view[view["risk"] >= threshold]
RiskCut(t, tau) == SelectSeq(t, LAMBDA r : r.risk >= tau)

\* line 151: head(top_n)
HeadN(t, n) == SubSeq(t, 1, Min(n, Len(t)))

\* line 161: round(3): from units of 1/10000 to units of 1/1000
Round3(p) == (p + 5) \div 10

\* lines 152-161: the columns shown, renamed, the risk rounded
Pretty(t) ==
    [i \in 1..Len(t) |->
        [CAMIS |-> t[i].CAMIS, Name |-> t[i].DBA, Borough |-> t[i].BORO,
         ZIP |-> t[i].ZIPCODE, Cuisine |-> t[i].CUISINE,
         LastInspection |-> t[i].DATE, PredictedRisk |-> Round3(t[i].risk)]]

(***************************************************************************)
(* The script run.                                                         *)
(***************************************************************************)
\* what the establishments of the runs' raw tables are like
Profiles ==
    {Profile("Queens", "Thai", "A", 11),
     Profile("Queens", "Pizza", NA, 1),
     Profile("Bronx", "Thai", "A", 1),
     Profile(NA, "Pizza", "A", 11)}

\* a raw table: cnt[c] records of each establishment c, with p[c] its profile
RECURSIVE RecordsOf(_, _, _, _)
RecordsOf(c, p, n, from) ==
    IF n = 0 THEN << >>
    ELSE RecordsOf(c, p, n - 1, from) \o
         <<ProfileRow(from + n, c, DateAt(n), "Critical", "12", p)>>

PipelineInputs ==
    {RecordsOf(1, p[1], cnt[1], 0) \o RecordsOf(2, p[2], cnt[2], cnt[1]) :
        p \in [Camis -> Profiles], cnt \in [Camis -> {1, 2}]}

Init ==
    /\ pc = "build"
    /\ raw \in PipelineInputs
    /\ df = Unset /\ feat = Unset /\ snap = Unset
    /\ boro_choice = "All" /\ cuisine_filter = {} /\ zip_filter = << >>
    /\ threshold = 0 /\ top_n = 0
    /\ view = Unset /\ calls = << >> /\ table = Unset /\ warned = FALSE

\* lines 102-118: the user's choices in the sidebar
SidebarControls ==
    /\ pc = "controls"
    /\ boro_choice' \in Boroughs(snap)
    /\ cuisine_filter' \in SUBSET TopCuisines(snap)
    /\ zip_filter' \in ZipInputs
    /\ threshold' \in Thresholds
    /\ top_n' \in TopNs
    /\ pc' = "filter"
    /\ UNCHANGED <<raw, df, feat, snap, view, calls, table, warned>>

\* lines 121-128
ApplyFilters ==
    /\ pc = "filter"
    /\ view' = FilterView(snap, boro_choice, cuisine_filter, zip_filter)
    /\ pc' = "check"
    /\ UNCHANGED <<raw, df, feat, snap, boro_choice, cuisine_filter, zip_filter,
                   threshold, top_n, calls, table, warned>>

\* lines 130-132: st.warning(...); st.stop()
EmptyStop ==
    /\ pc = "check"
    /\ IsEmpty(view)
    /\ warned' = TRUE
    /\ pc' = "stopped"
    /\ UNCHANGED <<raw, df, feat, snap, boro_choice, cuisine_filter, zip_filter,
                   threshold, top_n, view, calls, table>>

\* lines 135-138: the scorer is a function of the feature vector; its
\* probabilities are not known
Score ==
    /\ pc = "check"
    /\ ~IsEmpty(view)
    /\ LET X == FeatureVectors(view)
       IN  /\ calls' = Append(calls, X)
           /\ \E model \in [Rows(X) -> RiskLevels] :
                  view' \in SortByRisk(AssignRisk(view, [i \in 1..Len(X) |-> model[X[i]]]))
    /\ pc' = "rank"
    /\ UNCHANGED <<raw, df, feat, snap, boro_choice, cuisine_filter, zip_filter,
                   threshold, top_n, table, warned>>

\* lines 150-172: the worklist table, displayed and offered for download
Table ==
    /\ pc = "rank"
    /\ table' = Pretty(HeadN(RiskCut(view, threshold), top_n))
    /\ pc' = "done"
    /\ UNCHANGED <<raw, df, feat, snap, boro_choice, cuisine_filter, zip_filter,
                   threshold, top_n, view, calls, warned>>

Next ==
    \/ BuildFeatures
    \/ SidebarControls
    \/ ApplyFilters
    \/ EmptyStop
    \/ Score
    \/ Table

Spec == Init /\ [][Next]_vars

(***************************************************************************)
(* The ranking of a scored table by its risk column alone: sort, cut at    *)
(* the threshold, take the first top_n (lines 138, 150, 151).              *)
(***************************************************************************)
RiskColumns(n) == {[i \in 1..n |-> [risk |-> c[i]]] : c \in [1..n -> RiskLevels]}

InitRank ==
    /\ pc = "sort"
    /\ \E n \in 1..MaxScored : view \in RiskColumns(n)
    /\ threshold \in Thresholds
    /\ top_n \in TopNs
    /\ raw = Unset /\ df = Unset /\ feat = Unset /\ snap = Unset
    /\ boro_choice = "All" /\ cuisine_filter = {} /\ zip_filter = << >>
    /\ calls = << >> /\ table = Unset /\ warned = FALSE

\* line 138
SortRiskColumn ==
    /\ pc = "sort"
    /\ view' \in SortByRisk(view)
    /\ pc' = "cut"
    /\ UNCHANGED <<raw, df, feat, snap, boro_choice, cuisine_filter, zip_filter,
                   threshold, top_n, calls, table, warned>>

\* lines 150-151
CutRiskColumn ==
    /\ pc = "cut"
    /\ table' = HeadN(RiskCut(view, threshold), top_n)
    /\ pc' = "done"
    /\ UNCHANGED <<raw, df, feat, snap, boro_choice, cuisine_filter, zip_filter,
                   threshold, top_n, view, calls, warned>>

NextRank == SortRiskColumn \/ CutRiskColumn

SpecRank == InitRank /\ [][NextRank]_vars

(***************************************************************************)
(* Properties of add_history_and_features and latest_snapshot_for_scoring. *)
(***************************************************************************)
Built == pc # "build"

\* the entity ids a table holds
Entities(t) == {r.CAMIS : r \in Rows(t)}

\* entity c's date-sorted sequence of normalized records, as the run built it
EntitySequence(c) == SelectSeq(df, LAMBDA r : r.CAMIS = c)

\* the position in df of the row labelled x
PosIn(t, x) == CHOOSE i \in 1..Len(t) : t[i].idx = x

Labels(t) == [i \in 1..Len(t) |-> t[i].idx]

\* the raw table with the critical flag of its row j changed
FlipFlag(t, j) ==
    [t EXCEPT ![j].FLAG = IF @ = "Critical" THEN "Not Critical" ELSE "Critical"]

\* row j of the raw table is a record of df[k]'s entity strictly before df[k]
IsPriorOf(j, k) ==
    \E i \in 1..(k - 1) : df[i].idx = raw[j].idx /\ df[i].CAMIS = df[k].CAMIS

\* C1: a second run on a raw table that differs in the critical flag of one
\* row (sorted the same way, the sort keys being the same) gives record k the
\* same hist_crit_rate_w3, unless the changed row is a record of k's entity
\* strictly before k.  The raw tables of the runs cover every assignment of
\* flags, so changes of several flags are chains of such changes.
CausalityOfHistCritRate ==
    Built =>
        \A j \in 1..Len(raw) :
            \A h \in HistoryTables(FlipFlag(raw, j)) :
                Labels(h) = Labels(df) =>
                    \A k \in 1..Len(df) :
                        ~IsPriorOf(j, k) =>
                            h[k].hist_crit_rate_w3 = df[k].hist_crit_rate_w3

\* an entity with three records, the second with a defined rate, beside
\* another entity: the flags of the record itself, of a later record and of
\* another entity's record can all be changed
CausalityCase ==
    /\ Built
    /\ \E c \in Entities(df) :
          /\ Len(EntitySequence(c)) >= 3
          /\ EntitySequence(c)[2].hist_crit_rate_w3 = [num |-> 1, den |-> 1]
          /\ Entities(df) # {c}

\* the number of critical records among positions lo..hi of a sequence
CriticalIn(g, lo, hi) ==
    Cardinality({i \in lo..hi : i >= 1 /\ g[i].FLAG = "Critical"})

\* the raw table of the example: Jan (critical), Feb, Mar of one entity
ExampleRaw ==
    <<RawRow(1, 1, "01/15/2020", "Critical", "12"),
      RawRow(2, 1, "02/10/2020", "Not Critical", "12"),
      RawRow(3, 1, "03/05/2020", "Not Critical", "12")>>

\* C2: hist_crit_rate_w3 of record k of an entity's date-sorted sequence of
\* normalized records is the mean of the critical indicators of the last
\* min(3, k - 1) records strictly before k, and undefined for k = 1; in the
\* example Feb gets 1/1 and Mar gets 1/2.
HistCritRateIsWindowMean ==
    Built =>
        /\ \A c \in Entities(df) :
              LET g == EntitySequence(c)
              IN  \A k \in 1..Len(g) :
                      LET w == Min(3, k - 1)
                      IN  IF k = 1
                          THEN g[k].hist_crit_rate_w3 = NaNRate
                          ELSE /\ g[k].hist_crit_rate_w3.den = w
                               /\ g[k].hist_crit_rate_w3.num = CriticalIn(g, k - w, k - 1)
        /\ raw = ExampleRaw =>
              /\ Len(feat) = 2
              /\ feat[1].DATE = 20200210
              /\ feat[1].hist_crit_rate_w3 = [num |-> 1, den |-> 1]
              /\ feat[2].DATE = 20200305
              /\ feat[2].hist_crit_rate_w3 = [num |-> 1, den |-> 2]

\* a fifth record whose window leaves out a critical first record and holds a
\* record whose score is not numeric
WindowCase ==
    /\ Built
    /\ \E c \in Entities(df) :
          LET g == EntitySequence(c)
          IN  /\ Len(g) >= 5
              /\ g[1].FLAG = "Critical"
              /\ g[5].hist_crit_rate_w3 = [num |-> 0, den |-> 3]
              /\ \E i \in 2..4 : g[i].prev_score = NaN

\* C3: hist_visits_w3 of a feature row is the zero-based position of the
\* record in its entity's date-sorted sequence of normalized records: the
\* sequence holds exactly the entity's raw rows with a date, in date order,
\* kept in the feature table or not, and the count is not capped.
VisitCountIsSequencePosition ==
    Built =>
        \A i \in 1..Len(feat) :
            LET r == feat[i]
                g == EntitySequence(r.CAMIS)
                k == PosIn(g, r.idx)
            IN  /\ r.hist_visits_w3 = k - 1
                /\ \A a, b \in 1..Len(g) : a < b => g[a].DATE <= g[b].DATE
                /\ {g[a].idx : a \in 1..Len(g)} =
                      {raw[j].idx : j \in {x \in 1..Len(raw) :
                            /\ raw[x].CAMIS = r.CAMIS
                            /\ ToDatetime(raw[x].DATE) # NaT}}
                /\ Cardinality({g[a].idx : a \in 1..Len(g)}) = Len(g)

\* a feature row with four prior visits, one of which, not the first, is not
\* in the feature table
VisitCountCase ==
    /\ Built
    /\ \E i \in 1..Len(feat) :
          /\ feat[i].hist_visits_w3 = 4
          /\ \E a \in 2..4 :
                \A j \in 1..Len(feat) :
                    feat[j].idx # EntitySequence(feat[i].CAMIS)[a].idx

\* raw row j is the first record of its entity's date-sorted sequence
IsFirstOfEntity(j) ==
    \E i \in 1..Len(df) :
        /\ df[i].idx = raw[j].idx
        /\ \A a \in 1..(i - 1) : df[a].CAMIS # df[i].CAMIS

InFeatureTable(j) == \E i \in 1..Len(feat) : feat[i].idx = raw[j].idx

ValidRecords(c) ==
    {j \in 1..Len(raw) : raw[j].CAMIS = c /\ ToDatetime(raw[j].DATE) # NaT}

SnapshotIsLatestRowPerEntity ==
    Built =>
        /\ \A c \in Entities(feat) :
              Cardinality({i \in 1..Len(snap) : snap[i].CAMIS = c}) = 1
        /\ \A i \in 1..Len(snap) :
              /\ snap[i] \in Rows(feat)
              /\ \A r \in Rows(feat) :
                    r.CAMIS = snap[i].CAMIS => r.DATE <= snap[i].DATE
        /\ Len(snap) = Cardinality(Entities(feat))

\* two entities with feature rows, one of them with two feature rows that
\* share its latest inspection date
SnapshotCase ==
    /\ Built
    /\ Len(snap) = 2
    /\ \E i \in 1..2 : \E r \in Rows(feat) :
          r.CAMIS = snap[i].CAMIS /\ r.DATE = snap[i].DATE /\ r # snap[i]

(***************************************************************************)
(* Properties of the filter, score and rank stages.                        *)
(***************************************************************************)
Filtered == pc \in {"check", "stopped", "rank", "done"}

\* C6: a filter that supplies no values imposes no constraint: the filtered
\* set is the rows of the snapshot table that satisfy every supplied filter,
\* and it is the whole snapshot table when the borough is "All", no cuisine
\* is selected and no ZIP code is obtained from the ZIP input.
AbsentFilterIsNoConstraint ==
    pc = "check" =>
        /\ view = SelectSeq(snap, LAMBDA r :
                      /\ boro_choice = "All" \/ r.BORO = boro_choice
                      /\ cuisine_filter = {} \/ r.CUISINE \in cuisine_filter
                      /\ Zips(zip_filter) = {} \/ AsStr(r.ZIPCODE) \in Zips(zip_filter))
        /\ (boro_choice = "All" /\ cuisine_filter = {} /\ Zips(zip_filter) = {})
              => view = snap

\* C7: in a run whose filtered set is empty the scorer is never invoked and
\* no worklist is made: the run warns and stops, and takes no further step.
EmptyFilteredSetIsNeverScored ==
    /\ (Filtered /\ Len(view) = 0) =>
          /\ pc \in {"check", "stopped"}
          /\ calls = << >>
          /\ table = << >>
    /\ pc = "stopped" => warned /\ Len(view) = 0 /\ ~ENABLED Next
    /\ (pc = "check" /\ Len(view) = 0) => ~ENABLED Score

\* a borough and a cuisine that no establishment of a two-row snapshot table
\* has together
EmptyFilteredSetCase ==
    /\ pc = "stopped"
    /\ Len(snap) = 2
    /\ boro_choice # "All" /\ cuisine_filter # {} /\ zip_filter = << >>

ThresholdExcludesAll ==
    pc = "done" /\ \A i \in 1..Len(view) : view[i].risk < threshold

\* C8 as stated: when the threshold excludes every scored entity the run ends
\* in the empty-result state, having halted before invoking the scorer.
ThresholdExcludingAllHaltsBeforeScorer ==
    ThresholdExcludesAll => warned /\ calls = << >>

\* C8 as amended: when the threshold excludes every scored entity the scorer
\* has been invoked once, on the non-empty filtered set, and the run ends
\* with an empty worklist and without the empty-result warning; the warning
\* is given only when the filters leave no entity, and then before any
\* scoring.
ThresholdExcludingAllGivesEmptyWorklist ==
    /\ ThresholdExcludesAll =>
          /\ ~warned
          /\ Len(calls) = 1 /\ Len(calls[1]) = Len(view) /\ Len(view) > 0
          /\ table = << >>
    /\ warned => pc = "stopped" /\ Len(view) = 0 /\ calls = << >>

\* two scored establishments, both below the threshold
ThresholdExcludesAllCase ==
    /\ ThresholdExcludesAll
    /\ Len(view) = 2
    /\ threshold = 3500

\* the number of rows of a table with risk v
RiskCount(t, v) == Cardinality({i \in 1..Len(t) : t[i].risk = v})

\* C9: the worklist is in order of non-increasing risk, every row of it has
\* risk >= tau, it has min(N, number of scored rows with risk >= tau) rows,
\* all of them scored rows, and no scored row left out of it has risk >= tau
\* and a risk greater than a row in it; tau = 0.35 with risks 0.40 and 0.30
\* gives the 0.40 row alone.
WorklistIsTopNAtOrAboveThreshold ==
    pc = "done" =>
        /\ \A i \in 1..(Len(table) - 1) : table[i].risk >= table[i + 1].risk
        /\ \A i \in 1..Len(table) : table[i].risk >= threshold
        /\ Len(table) =
              Min(top_n, Cardinality({i \in 1..Len(view) : view[i].risk >= threshold}))
        /\ \A v \in RiskLevels :
              /\ RiskCount(table, v) <= RiskCount(view, v)
              /\ (RiskCount(table, v) < RiskCount(view, v) /\ v >= threshold)
                    => \A i \in 1..Len(table) : table[i].risk >= v
        /\ (threshold = 3500 /\ Len(view) = 2
                /\ RiskCount(view, 4000) = 1 /\ RiskCount(view, 3000) = 1)
              => table = <<[risk |-> 4000]>>

\* more rows at or above the threshold than the worklist takes, of two risks
WorklistCase ==
    /\ pc = "done"
    /\ Len(table) = top_n
    /\ Cardinality({i \in 1..Len(view) : view[i].risk >= threshold}) > top_n
    /\ table[1].risk > table[Len(table)].risk

\* value v of feature f is undefined
Undefined(f, v) ==
    CASE f \in {"CUISINE", "BORO", "GRADE"} -> v = NA
      [] f = "hist_crit_rate_w3" -> v = NaNRate
      [] OTHER -> v = NaN

\* C10: no feature vector with an undefined value in any of the nine
\* features is passed to the scorer.
ScorerNeverGetsUndefinedFeature ==
    \A c \in 1..Len(calls) :
        \A i \in 1..Len(calls[c]) :
            \A f \in FEATURES : ~Undefined(f, calls[c][i][f])

====
